---- MODULE Spec2Model ----
(***************************************************************************)
(* A model of api/index.py: the city table built at import, the lifespan   *)
(* (startup population, shutdown clearing) and the three request handlers  *)
(* get_cities, get_metrics and predict.                                    *)
(*                                                                         *)
(* Strings that the code normalises (CITY cells, the request's City) are   *)
(* sequences of code points, so that str.strip, str.lower, str.title and   *)
(* the ordering used by sorted() are computed, not assumed.  The alphabet  *)
(* is " " (32), "S" (83), "s" (115) and the sharp s (223), whose title     *)
(* case is the two characters "Ss".                                        *)
(*                                                                         *)
(* Floats are binary floating-point numbers with round-to-nearest-even.    *)
(* A float is held as an integer count of units 2^-(MantBits-1); binary64  *)
(* has a 53 bit significand, which TLC's 32 bit integers cannot hold, so   *)
(* the significand width is the bound MantBits.  Values rounded to two     *)
(* decimals are held as integer hundredths, values rounded to four         *)
(* decimals as integer ten-thousandths.                                    *)
(***************************************************************************)
EXTENDS Integers, Sequences, FiniteSets, TLC

\* ------------------------------------------------------------------ bounds
\* Longest CITY cell and longest City of a request, in characters.
MaxLen == 2
\* Most distinct cities in city_traffic_scores.csv (its rows are not bounded).
MaxCities == 2
\* Significand width of the floats (binary64: 53).
MantBits == 9
\* Raw model outputs are the floats in [1, MaxOutput).
MaxOutput == 4
\* Evaluation sets of 1..MaxEvalRows rows are enumerated in full.
MaxEvalRows == 4
\* Large evaluation sets have LargeEvalRows-3 .. LargeEvalRows rows, and
\* between three quarters of them less HitWindow and plus HitWindow hits.
LargeEvalRows == 5004
HitWindow == 3

\* ------------------------------------------------------- program constants
DEFAULT_TRAFFIC_SCORE == 50

\* --------------------------------------------------------------- strings
Chars == {32, 83, 115, 223}

RECURSIVE StringsOfLen(_)
StringsOfLen(n) ==
    IF n = 0 THEN {<<>>}
    ELSE {<<c>> \o s : c \in Chars, s \in StringsOfLen(n - 1)}

\* Every string of at most MaxLen characters.
CityStrings == UNION {StringsOfLen(n) : n \in 0..MaxLen}

\* str.isspace of one character.
IsSpace(c) == c = 32

\* Whether a character is cased (has an upper, lower or title case form).
Cased(c) == c \in {83, 115, 223}

\* str.lower of one character: "S" -> "s"; "s", sharp s and " " are unchanged.
LowerChar(c) == IF c = 83 THEN 115 ELSE c

\* The title case of one character: "s" -> "S", sharp s -> "Ss".
TitleChar(c) ==
    IF c = 115 THEN <<83>>
    ELSE IF c = 223 THEN <<83, 115>>
    ELSE <<c>>

RECURSIVE LStrip(_)
LStrip(s) ==
    IF s # <<>> /\ IsSpace(Head(s)) THEN LStrip(Tail(s)) ELSE s

RECURSIVE RStrip(_)
RStrip(s) ==
    IF s # <<>> /\ IsSpace(s[Len(s)]) THEN RStrip(SubSeq(s, 1, Len(s) - 1)) ELSE s

\* str.strip(): leading and trailing whitespace removed.
Strip(s) == RStrip(LStrip(s))

\* str.lower().
RECURSIVE Lower(_)
Lower(s) ==
    IF s = <<>> THEN <<>> ELSE <<LowerChar(Head(s))>> \o Lower(Tail(s))

\* str.title(): a cased character that follows an uncased one (or starts the
\* string) is title-cased, a cased character that follows a cased one is
\* lower-cased, an uncased character is kept.
RECURSIVE TitleFrom(_, _)
TitleFrom(s, prev_cased) ==
    IF s = <<>> THEN <<>>
    ELSE LET c == Head(s)
             out == IF Cased(c)
                    THEN (IF prev_cased THEN <<LowerChar(c)>> ELSE TitleChar(c))
                    ELSE <<c>>
         IN  out \o TitleFrom(Tail(s), Cased(c))

Title(s) == TitleFrom(s, FALSE)

\* The order of str under <=: lexicographic by code point.
RECURSIVE StrLeq(_, _)
StrLeq(a, b) ==
    IF a = <<>> THEN TRUE
    ELSE IF b = <<>> THEN FALSE
    ELSE IF Head(a) < Head(b) THEN TRUE
    ELSE IF Head(a) > Head(b) THEN FALSE
    ELSE StrLeq(Tail(a), Tail(b))

\* sorted() of a set of strings.
RECURSIVE SortedSet(_)
SortedSet(strs) ==
    IF strs = {} THEN <<>>
    ELSE LET m == CHOOSE x \in strs : \A y \in strs : StrLeq(x, y)
         IN  <<m>> \o SortedSet(strs \ {m})

\* sorted({c.title() for c in keys}): equal titles collapse into one element.
TitlesDedup(keys) == SortedSet({Title(k) : k \in keys})

\* sorted([c.title() for c in keys]): one element per key, least first.
RECURSIVE SortedTitles(_)
SortedTitles(keys) ==
    IF keys = {} THEN <<>>
    ELSE LET k == CHOOSE x \in keys :
                      \A y \in keys : StrLeq(Title(x), Title(y))
         IN  <<Title(k)>> \o SortedTitles(keys \ {k})

\* ----------------------------------------------------------------- floats
RECURSIVE Pow2(_)
Pow2(n) == IF n = 0 THEN 1 ELSE 2 * Pow2(n - 1)

\* The float 1.0, in units of 2^-(MantBits-1).
One == Pow2(MantBits - 1)

RECURSIVE BitLen(_)
BitLen(i) == IF i = 0 THEN 0 ELSE 1 + BitLen(i \div 2)

\* num/den rounded to the nearest integer, ties to the even one (den > 0).
RoundHalfEven(num, den) ==
    LET q == num \div den
        r == num % den
    IN  IF 2 * r < den THEN q
        ELSE IF 2 * r > den THEN q + 1
        ELSE IF q % 2 = 0 THEN q ELSE q + 1

\* The float nearest to i units (i >= 0): i rounded to MantBits significant
\* bits, ties to the even significand.
FlAbs(i) ==
    IF BitLen(i) <= MantBits THEN i
    ELSE LET q == Pow2(BitLen(i) - MantBits)
         IN  q * RoundHalfEven(i, q)

Fl(i) == IF i < 0 THEN 0 - FlAbs(0 - i) ELSE FlAbs(i)

\* Float addition, float multiplication by 100, and rint.
FAdd(x, y) == Fl(x + y)
FMul100(x) == Fl(100 * x)
RInt(x) == RoundHalfEven(x, One)

\* round(x, 2) of a numpy float64, as integer hundredths.  numpy's own
\* __round__ computes rint(x * 100) / 100 in floats; a float64 that inherits
\* float.__round__ rounds the exact value of x.  Either result is the float
\* nearest to h/100, which the JSON response prints as the decimal h/100.
RoundImpls == {"numpy", "builtin"}

Round2(x, impl) ==
    IF impl = "numpy" THEN RInt(FMul100(x))
    ELSE RoundHalfEven(100 * x, One)

\* The floats of [1, MaxOutput).
Floats == {i \in One..(MaxOutput * One - 1) : Fl(i) = i}

\* ------------------------------------------------------------------ state
VARIABLES
    pc,               \* where the process is in its life
    city_map,         \* city_map: normalised city name -> traffic score
    ml_models,        \* ml_models
    metrics_data,     \* metrics_data
    test_eval,        \* what evaluating test.csv gave at startup
    round_impl,       \* which round() the installed numpy gives a float64
    request,          \* the request handled last
    response,         \* its response
    model_input,      \* the rows passed to model.predict for that request
    model_output,     \* what model.predict returned for them, when it returned
    metrics_returned, \* every body GET /api/metrics has returned
    last_op           \* the operation that took the last step

vars == <<pc, city_map, ml_models, metrics_data, test_eval,
          round_impl, request, response, model_input, model_output,
          metrics_returned, last_op>>

\* An empty dict.
EmptyDict == <<>>

\* d[key] = value, as a dict assignment.
DictPut(d, key, value) ==
    [k \in DOMAIN d \cup {key} |-> IF k = key THEN value ELSE d[k]]

\* The module's own dictionaries, which a handler must not touch.
process_state == <<city_map, ml_models, metrics_data>>

Handlers == {"get_cities", "get_metrics", "predict"}
HandlerFrame == UNCHANGED <<pc, city_map, ml_models, metrics_data, test_eval,
                            round_impl>>

\* ------------------------------------------------------------ city table
Scores == {10, 90}

\* The rows city_traffic_scores.csv may hold.
CsvRows == {[CITY |-> c, TRAFFIC_SCORE |-> v] : c \in CityStrings, v \in Scores}

\* The key a row is stored under: str(row["CITY"]).strip().lower().
CityKey(cell) == Lower(Strip(cell))

\* city_map.get(City.strip().lower(), DEFAULT_TRAFFIC_SCORE).
LookupNoStrip(m, city) ==
    IF Lower(city) \in DOMAIN m THEN m[Lower(city)] ELSE DEFAULT_TRAFFIC_SCORE

Lookup(m, city) ==
    LET key == Lower(Strip(city))
    IN  IF key \in DOMAIN m THEN m[key] ELSE DEFAULT_TRAFFIC_SCORE

\* ------------------------------------------------------------ model artifact
FeatureNames == <<"Total_km_driven", "Brand", "Model", "Engine_cc", "Fuel_type",
                  "City_traffic_score", "Transmission", "Age_of_vehicle",
                  "Number_of_owners">>

\* mileage_model.pkl: the pipeline, its feature names, and the regressor's
\* feature_importances_ (in thousandths).
Artifact == [model |-> "pipeline",
             features |-> FeatureNames,
             importances |-> <<300, 50, 50, 150, 100, 100, 50, 150, 50>>]

\* dict(zip(feature_names, rf_model.feature_importances_)).
ZipDict(names, values) ==
    [f \in {names[i] : i \in 1..Len(names)} |->
        values[CHOOSE i \in 1..Len(names) : names[i] = f /\
                   \A j \in (i + 1)..Len(names) : names[j] # f]]

\* ------------------------------------------------------------------ metrics
\* What evaluating test.csv gives: its row count, how many predictions fall
\* within 1 of the truth, and the error statistics already rounded to four
\* decimals (in ten-thousandths).  The traffic score of each row is drawn at
\* random, so the outcome is an input.
AbsentEval == [present |-> FALSE, n |-> 0, hits |-> 0,
               mae |-> 0, rmse |-> 0, r2 |-> 0, bias |-> 0]

EvalStats == [mae |-> 9000, rmse |-> 14000, r2 |-> 9100, bias |-> -300]

Evaluation(n, hits) ==
    [present |-> TRUE, n |-> n, hits |-> hits, mae |-> EvalStats.mae,
     rmse |-> EvalStats.rmse, r2 |-> EvalStats.r2, bias |-> EvalStats.bias]

SmallEvals == UNION {{Evaluation(n, k) : k \in 0..n} : n \in 1..MaxEvalRows}

LargeEvals ==
    UNION {{Evaluation(n, k) :
               k \in ((3 * n) \div 4 - HitWindow)..((3 * n) \div 4 + HitWindow)} :
           n \in (LargeEvalRows - 3)..LargeEvalRows}

\* "EXCELLENT" if within_1 > 75 else "GOOD", within_1 = hits / n * 100.  The
\* float within_1 exceeds 75 exactly when hits / n exceeds 3/4: 0.75 and 75.0
\* are floats, and any other hits / n is further from 3/4 than a rounding error.
GradeAtLeast(hits, n) == IF 100 * hits >= 75 * n THEN "EXCELLENT" ELSE "GOOD"
GradeOf(hits, n) == IF 100 * hits > 75 * n THEN "EXCELLENT" ELSE "GOOD"

\* round(within_1, 2), in hundredths of a percent.
Within1Rounded(hits, n) == RoundHalfEven(10000 * hits, n)

FallbackMetrics == [MAE |-> 12500, RMSE |-> 18500, R2 |-> 8900, Bias |-> -1200,
                    Within_1_km |-> 8250, Grade |-> "EXCELLENT"]

\* What lifespan stores in metrics_data.
MetricsSnapshot(ev) ==
    IF ev.present
    THEN [MAE |-> ev.mae, RMSE |-> ev.rmse, R2 |-> ev.r2, Bias |-> ev.bias,
          Within_1_km |-> Within1Rounded(ev.hits, ev.n),
          Grade |-> GradeOf(ev.hits, ev.n)]
    ELSE FallbackMetrics

\* ---------------------------------------------------------------- CarInput
FuelType == {"Petrol", "Diesel", "CNG", "Electric"}
TransmissionType == {"Manual", "Automatic"}

CarInputFields == {"Total_km_driven", "Brand", "Model", "Engine_cc", "Fuel_type",
                   "City", "Transmission", "Age_of_vehicle", "Number_of_owners"}

\* Whether a JSON body validates as a CarInput: every field is there and the
\* two enum fields hold a member of their enum.  No field has a range.
CarInputNonNegative(body) ==
    /\ CarInputFields \subseteq DOMAIN body
    /\ body.Fuel_type \in FuelType
    /\ body.Transmission \in TransmissionType
    /\ body.Total_km_driven >= 0
    /\ body.Age_of_vehicle >= 0
    /\ body.Number_of_owners >= 0

CarInputNoEnum(body) == CarInputFields \subseteq DOMAIN body

CarInputValid(body) ==
    /\ CarInputFields \subseteq DOMAIN body
    /\ body.Fuel_type \in FuelType
    /\ body.Transmission \in TransmissionType

\* The one-row DataFrame predict builds.
InputFrame(data, traffic_score) ==
    <<[Total_km_driven |-> data.Total_km_driven,
       Brand |-> data.Brand,
       Model |-> data.Model,
       Engine_cc |-> data.Engine_cc,
       Fuel_type |-> data.Fuel_type,
       City_traffic_score |-> traffic_score,
       Transmission |-> data.Transmission,
       Age_of_vehicle |-> data.Age_of_vehicle,
       Number_of_owners |-> data.Number_of_owners]>>

\* The body of a successful prediction, from the model's raw output.
PredictionBody(prediction, impl, importance) ==
    [predicted_mileage |-> Round2(prediction, impl),
     range |-> <<Round2(FAdd(prediction, 0 - One), impl),
                 Round2(FAdd(prediction, One), impl)>>,
     feature_importance |-> importance]

\* -------------------------------------------------------------------- Init
\* The module starts to load: city_map, ml_models and metrics_data are empty
\* and no request has been handled.
NoRequest == [path |-> "none", body |-> <<>>]
NoResponse == [status |-> 0, body |-> <<>>]

Init ==
    /\ pc = "import"
    /\ city_map = EmptyDict
    /\ ml_models = EmptyDict
    /\ metrics_data = EmptyDict
    /\ test_eval = AbsentEval
    /\ round_impl \in RoundImpls
    /\ request = NoRequest
    /\ response = NoResponse
    /\ model_input = <<>>
    /\ model_output = <<>>
    /\ metrics_returned = {}
    /\ last_op = "none"

\* ------------------------------------------------------------- module load
\* One iteration of the dict comprehension over city_df.iterrows(): a later
\* row with the same key replaces the earlier one.
LoadRow(rows) ==
    /\ pc = "import"
    /\ \E row \in rows :
          /\ Cardinality(DOMAIN city_map \cup {CityKey(row.CITY)}) <= MaxCities
          /\ city_map' = DictPut(city_map, CityKey(row.CITY), row.TRAFFIC_SCORE)
    /\ last_op' = "load_row"
    /\ UNCHANGED <<pc, ml_models, metrics_data, test_eval, round_impl,
                   request, response, model_input, model_output,
                   metrics_returned>>

\* The rest of the module body: the app is created with its lifespan.
finish_import ==
    /\ pc = "import"
    /\ pc' = "created"
    /\ last_op' = "finish_import"
    /\ UNCHANGED <<city_map, ml_models, metrics_data, test_eval,
                   round_impl, request, response, model_input,
                   model_output, metrics_returned>>

\* ---------------------------------------------------------------- lifespan
\* Startup, first part: the artifact is loaded, model and features are stored.
load_model ==
    /\ pc = "created"
    /\ ml_models' = DictPut(DictPut(ml_models, "model", Artifact.model),
                            "features", Artifact.features)
    /\ pc' = "model_loaded"
    /\ last_op' = "load_model"
    /\ UNCHANGED <<city_map, metrics_data, test_eval, round_impl,
                   request, response, model_input, model_output,
                   metrics_returned>>

\* Startup, second part: the feature importance mapping is stored.
feature_importance ==
    /\ pc = "model_loaded"
    /\ ml_models' = DictPut(ml_models, "feature_importance_dict",
                            ZipDict(ml_models["features"], Artifact.importances))
    /\ pc' = "importance_set"
    /\ last_op' = "feature_importance"
    /\ UNCHANGED <<city_map, metrics_data, test_eval, round_impl,
                   request, response, model_input, model_output,
                   metrics_returned>>

\* Startup, last part: the metrics are computed from test.csv, or the fallback
\* is taken when there is none; then the lifespan yields and requests are served.
compute_metrics(evals) ==
    /\ pc = "importance_set"
    /\ \E ev \in evals :
          /\ metrics_data' = MetricsSnapshot(ev)
          /\ test_eval' = ev
    /\ pc' = "serving"
    /\ last_op' = "compute_metrics"
    /\ UNCHANGED <<city_map, ml_models, round_impl,
                   request, response, model_input, model_output,
                   metrics_returned>>

\* Startup raises (no artifact, a test.csv without the columns): the process
\* never serves.
startup_fail ==
    /\ pc \in {"created", "model_loaded", "importance_set"}
    /\ pc' = "failed"
    /\ last_op' = "startup_fail"
    /\ UNCHANGED <<city_map, ml_models, metrics_data, test_eval,
                   round_impl, request, response, model_input,
                   model_output, metrics_returned>>

\* Shutdown, after the yield: ml_models.clear().
clear_models ==
    /\ pc = "serving"
    /\ ml_models' = EmptyDict
    /\ pc' = "clearing"
    /\ last_op' = "clear_models"
    /\ UNCHANGED <<city_map, metrics_data, test_eval, round_impl,
                   request, response, model_input, model_output,
                   metrics_returned>>

\* Shutdown: metrics_data.clear().  city_map is not touched.
clear_metrics_skipped ==
    /\ pc = "clearing"
    /\ pc' = "stopped"
    /\ last_op' = "clear_metrics"
    /\ UNCHANGED <<city_map, ml_models, metrics_data, test_eval,
                   round_impl, request, response, model_input,
                   model_output, metrics_returned>>

clear_metrics ==
    /\ pc = "clearing"
    /\ metrics_data' = EmptyDict
    /\ pc' = "stopped"
    /\ last_op' = "clear_metrics"
    /\ UNCHANGED <<city_map, ml_models, test_eval, round_impl,
                   request, response, model_input, model_output,
                   metrics_returned>>

\* ---------------------------------------------------------------- handlers
\* The server hands requests to the app between the lifespan's startup (up to
\* its yield) and its shutdown (after the yield), and at no other time.
ServingAtAnyTime == pc \notin {"failed", "stopped"}
Serving == pc = "serving"

\* GET /api/cities
get_cities ==
    /\ Serving
    /\ request' = [path |-> "/api/cities", body |-> <<>>]
    /\ response' = [status |-> 200,
                    body |-> [cities |-> SortedTitles(DOMAIN city_map)]]
    /\ model_input' = <<>>
    /\ model_output' = <<>>
    /\ last_op' = "get_cities"
    /\ HandlerFrame
    /\ UNCHANGED metrics_returned

\* GET /api/metrics, recomputing the snapshot on every call.
get_metrics_recomputing ==
    /\ Serving
    /\ \E ev \in SmallEvals :
          /\ metrics_data' = MetricsSnapshot(ev)
          /\ response' = [status |-> 200, body |-> MetricsSnapshot(ev)]
          /\ metrics_returned' = metrics_returned \cup {MetricsSnapshot(ev)}
    /\ request' = [path |-> "/api/metrics", body |-> <<>>]
    /\ model_input' = <<>>
    /\ model_output' = <<>>
    /\ last_op' = "get_metrics"
    /\ UNCHANGED <<pc, city_map, ml_models, test_eval, round_impl>>

\* GET /api/metrics
get_metrics ==
    /\ Serving
    /\ request' = [path |-> "/api/metrics", body |-> <<>>]
    /\ response' = [status |-> 200, body |-> metrics_data]
    /\ metrics_returned' = metrics_returned \cup {metrics_data}
    /\ model_input' = <<>>
    /\ model_output' = <<>>
    /\ last_op' = "get_metrics"
    /\ HandlerFrame

\* The response to a valid body whose row the pipeline answers with `out`.
PredictResponse(out) ==
    IF  \/ "model" \notin DOMAIN ml_models
        \/ ~out.ok
        \/ "feature_importance_dict" \notin DOMAIN ml_models
    THEN \* a KeyError, or the pipeline's exception: neither is caught
         [status |-> 500, body |-> <<>>]
    ELSE [status |-> 200,
          body |-> PredictionBody(out.y, round_impl,
                                  ml_models["feature_importance_dict"])]

\* POST /api/predict, with a lookup that stores the default for an unknown
\* city (city_map.setdefault in place of city_map.get).
predict_setdefault(requests, outputs) ==
    /\ Serving
    /\ \E data \in requests, out \in outputs :
          /\ request' = [path |-> "/api/predict", body |-> data]
          /\ IF ~CarInputValid(data)
             THEN /\ response' = [status |-> 422, body |-> <<>>]
                  /\ model_input' = <<>>
                  /\ model_output' = <<>>
                  /\ city_map' = city_map
             ELSE /\ city_map' =
                        IF Lower(Strip(data.City)) \in DOMAIN city_map
                        THEN city_map
                        ELSE DictPut(city_map, Lower(Strip(data.City)),
                                     DEFAULT_TRAFFIC_SCORE)
                  /\ model_input' =
                        IF "model" \in DOMAIN ml_models
                        THEN InputFrame(data, Lookup(city_map, data.City))
                        ELSE <<>>
                  /\ model_output' =
                        IF "model" \in DOMAIN ml_models /\ out.ok
                        THEN <<out.y>>
                        ELSE <<>>
                  /\ response' = PredictResponse(out)
    /\ last_op' = "predict"
    /\ UNCHANGED <<pc, ml_models, metrics_data, test_eval,
                   round_impl, metrics_returned>>

\* POST /api/predict with a JSON body of `requests`; the pipeline answers the
\* row with one of `outputs`: a float, or an exception.
predict(requests, outputs) ==
    /\ Serving
    /\ \E data \in requests, out \in outputs :
          /\ request' = [path |-> "/api/predict", body |-> data]
          /\ IF ~CarInputValid(data)
             THEN \* rejected at the boundary: 422, the function never runs
                  /\ response' = [status |-> 422, body |-> <<>>]
                  /\ model_input' = <<>>
                  /\ model_output' = <<>>
             ELSE \* the row reaches model.predict unless ml_models["model"]
                  \* raises KeyError first
                  /\ model_input' =
                        IF "model" \in DOMAIN ml_models
                        THEN InputFrame(data, Lookup(city_map, data.City))
                        ELSE <<>>
                  /\ model_output' =
                        IF "model" \in DOMAIN ml_models /\ out.ok
                        THEN <<out.y>>
                        ELSE <<>>
                  /\ response' = PredictResponse(out)
    /\ last_op' = "predict"
    /\ HandlerFrame
    /\ UNCHANGED metrics_returned

\* ------------------------------------------------------------------ inputs
BaseRequest == [Total_km_driven |-> 50000, Brand |-> "Toyota", Model |-> "Corolla",
                Engine_cc |-> 1800, Fuel_type |-> "Petrol", City |-> <<83>>,
                Transmission |-> "Automatic", Age_of_vehicle |-> 3,
                Number_of_owners |-> 1]

Without(body, field) == [f \in DOMAIN body \ {field} |-> body[f]]

\* The pipeline raises, or returns the float y.
Raised == [ok |-> FALSE, y |-> 0]
Returned(y) == [ok |-> TRUE, y |-> y]

\* Requests of the lifecycle specification: a known city, two variants of
\* known cities, an unknown city, every enum value and one value outside each
\* enum, each numeric field negative, a missing field, and a body wrong twice.
LifecycleRows == {[CITY |-> c, TRAFFIC_SCORE |-> v] :
                     c \in {<<83>>, <<223>>}, v \in Scores}

LifecycleRequests ==
    {[BaseRequest EXCEPT !.City = c] : c \in {<<32, 83>>, <<223>>, <<115, 115>>}}
    \cup {[BaseRequest EXCEPT !.Fuel_type = f] : f \in FuelType \cup {"Hybrid"}}
    \cup {[BaseRequest EXCEPT !.Transmission = x] :
             x \in TransmissionType \cup {"CVT"}}
    \cup {[BaseRequest EXCEPT !.Total_km_driven = -1],
          [BaseRequest EXCEPT !.Age_of_vehicle = -1],
          [BaseRequest EXCEPT !.Number_of_owners = -1],
          [BaseRequest EXCEPT !.Number_of_owners = -1, !.Fuel_type = "Hybrid"],
          Without(BaseRequest, "Brand")}

LifecycleOutputs == {Raised, Returned(One + One \div 2)}

LifecycleEvals == {AbsentEval} \cup SmallEvals

CityRequests == {[BaseRequest EXCEPT !.City = c] : c \in CityStrings}

FloatOutputs == {Returned(f) : f \in Floats}

\* ---------------------------------------------------------- specifications
\* The whole life of the process: module load, startup, requests, shutdown.
Next ==
    \/ LoadRow(LifecycleRows)
    \/ finish_import
    \/ load_model
    \/ feature_importance
    \/ compute_metrics(LifecycleEvals)
    \/ startup_fail
    \/ get_cities
    \/ get_metrics
    \/ predict(LifecycleRequests, LifecycleOutputs)
    \/ clear_models
    \/ clear_metrics

Spec == Init /\ [][Next]_vars

\* No request has been handled since the process started.  The specifications
\* below look at the first request only: a handler leaves the process state
\* as it is, so a later request sees what the first one saw.
FirstRequest == request = NoRequest

\* The city table over every CSV content, looked up with every City string.
\* The one prediction it asks for, 1.0, is rounded alike by either round().
InitCity == Init /\ round_impl = "numpy"

NextCity ==
    \/ LoadRow(CsvRows)
    \/ finish_import
    \/ load_model
    \/ feature_importance
    \/ compute_metrics({AbsentEval})
    \/ FirstRequest /\ get_cities
    \/ FirstRequest /\ predict(CityRequests, {Returned(One)})

SpecCity == InitCity /\ [][NextCity]_vars

\* predict over every raw model output.
NextRound ==
    \/ finish_import
    \/ load_model
    \/ feature_importance
    \/ compute_metrics({AbsentEval})
    \/ FirstRequest /\ predict({BaseRequest}, FloatOutputs)

SpecRound == Init /\ [][NextRound]_vars

\* Startup over small and large evaluation sets, then GET /api/metrics.
NextMetrics ==
    \/ finish_import
    \/ load_model
    \/ feature_importance
    \/ compute_metrics(SmallEvals \cup LargeEvals)
    \/ get_metrics

SpecMetrics == Init /\ [][NextMetrics]_vars

\* ------------------------------------------------------------------ claims
\* What the claims say of a string, stated without the code's own operators:
\* s without its first a and its last b characters is s trimmed when those
\* characters are spaces and what is left neither starts nor ends with one;
\* key is core lower-cased when it is core with every "S" replaced by "s".
IsTrimAt(s, a, b) ==
    /\ a + b <= Len(s)
    /\ \A i \in 1..a : s[i] = 32
    /\ \A i \in (Len(s) - b + 1)..Len(s) : s[i] = 32
    /\ a + b < Len(s) => (s[a + 1] # 32 /\ s[Len(s) - b] # 32)

IsLowerOf(key, core) ==
    /\ Len(key) = Len(core)
    /\ \A i \in 1..Len(core) : key[i] = IF core[i] = 83 THEN 115 ELSE core[i]

\* The request handled last was a POST /api/predict.
Predicted == last_op = "predict"

\* The traffic score of the row that reached the model.
ResolvedScore == model_input[1].City_traffic_score

\* C1: the city lookup of predict is total and normalization-insensitive.
\* Whatever the City string, the request does not fail, and the traffic score
\* it resolves is the score stored under the trimmed, lower-cased City when the
\* table has that key, and 50 when it has not.
C1_LookupTotalNormalized ==
    Predicted =>
        /\ response.status = 200
        /\ Len(model_input) = 1
        /\ \E a \in 0..Len(request.body.City), b \in 0..Len(request.body.City) :
              /\ IsTrimAt(request.body.City, a, b)
              /\ LET core == SubSeq(request.body.City, a + 1,
                                    Len(request.body.City) - b)
                 IN  \/ \E key \in DOMAIN city_map :
                           IsLowerOf(key, core) /\ ResolvedScore = city_map[key]
                     \/ /\ \A key \in DOMAIN city_map : ~IsLowerOf(key, core)
                        /\ ResolvedScore = 50

\* A request for " S" found the score 90 stored under "s".
C1_Witness ==
    /\ Predicted
    /\ request.body.City = <<32, 83>>
    /\ <<115>> \in DOMAIN city_map
    /\ city_map[<<115>>] = 90
    /\ ResolvedScore = 90

\* C2: a predict request whose Fuel_type is outside {Petrol, Diesel, CNG,
\* Electric} or whose Transmission is outside {Manual, Automatic} is answered
\* with a client error and never reaches model.predict.
C2_EnumRejected ==
    ( /\ Predicted
      /\ {"Fuel_type", "Transmission"} \subseteq DOMAIN request.body
      /\ \/ request.body.Fuel_type \notin {"Petrol", "Diesel", "CNG", "Electric"}
         \/ request.body.Transmission \notin {"Manual", "Automatic"} )
    => (response.status = 422 /\ model_input = <<>>)

\* A request with Fuel_type "Hybrid" was rejected.
C2_Witness ==
    /\ Predicted
    /\ "Fuel_type" \in DOMAIN request.body
    /\ request.body.Fuel_type = "Hybrid"
    /\ response.status = 422

\* The body of the last predict request has a negative field.
HasNegative ==
    /\ Predicted
    /\ {"Total_km_driven", "Age_of_vehicle", "Number_of_owners"}
          \subseteq DOMAIN request.body
    /\ \/ request.body.Total_km_driven < 0
       \/ request.body.Age_of_vehicle < 0
       \/ request.body.Number_of_owners < 0

\* C3 as stated: a predict request with a negative Total_km_driven,
\* Age_of_vehicle or Number_of_owners is rejected before model.predict.
C3_NegativeRejected ==
    HasNegative => (response.status = 422 /\ model_input = <<>>)

\* C3 as amended: validation checks that the fields are there and that the two
\* enum fields hold enum members, and nothing else.  A request is rejected
\* exactly when a field is missing or an enum value is unknown; a complete body
\* with a negative number reaches model.predict with that number in its row.
C3_OnlyShapeAndEnumsChecked ==
    Predicted =>
        LET body == request.body
            wellFormed ==
                /\ DOMAIN BaseRequest \subseteq DOMAIN body
                /\ body.Fuel_type \in {"Petrol", "Diesel", "CNG", "Electric"}
                /\ body.Transmission \in {"Manual", "Automatic"}
        IN  /\ response.status = 422 <=> ~wellFormed
            /\ wellFormed =>
                  /\ Len(model_input) = 1
                  /\ model_input[1].Total_km_driven = body.Total_km_driven
                  /\ model_input[1].Age_of_vehicle = body.Age_of_vehicle
                  /\ model_input[1].Number_of_owners = body.Number_of_owners

\* A request with a negative Total_km_driven was answered with a prediction.
C3_Witness ==
    /\ HasNegative
    /\ request.body.Total_km_driven < 0
    /\ response.status = 200
    /\ model_input[1].Total_km_driven < 0

\* C4: in every successful predict response, range is exactly
\* [predicted_mileage - 1, predicted_mileage + 1] (in hundredths: 100 below and
\* 100 above the reported mileage), so its ends are 2 apart.
C4_RangeAroundReported ==
    (Predicted /\ response.status = 200) =>
        response.body.range = <<response.body.predicted_mileage - 100,
                                response.body.predicted_mileage + 100>>

\* The list GET /api/cities returned last.
Cities == response.body.cities

IsSorted(list) ==
    \A i \in 1..Len(list), j \in 1..Len(list) : i < j => StrLeq(list[i], list[j])

\* C5 as stated: the list of GET /api/cities is sorted ascending, each element
\* is the title-cased form of a key, every key has its entry, no entry occurs
\* twice, and the list is as long as the table has keys.
C5_OneDistinctEntryPerKey ==
    last_op = "get_cities" =>
        /\ IsSorted(Cities)
        /\ \A i \in 1..Len(Cities) : \E k \in DOMAIN city_map : Cities[i] = Title(k)
        /\ \A k \in DOMAIN city_map : \E i \in 1..Len(Cities) : Cities[i] = Title(k)
        /\ \A i \in 1..Len(Cities), j \in 1..Len(Cities) :
              i # j => Cities[i] # Cities[j]
        /\ Len(Cities) = Cardinality(DOMAIN city_map)

\* C5 as amended: the list is sorted ascending, each element is the title-cased
\* form of a key, and there is one entry per key: a title-cased form occurs as
\* many times as there are keys with that form, so the list is as long as the
\* table has keys.  Two keys with the same title-cased form give two equal
\* entries.
C5_OneEntryPerKey ==
    last_op = "get_cities" =>
        /\ IsSorted(Cities)
        /\ \A i \in 1..Len(Cities) : \E k \in DOMAIN city_map : Cities[i] = Title(k)
        /\ \A k \in DOMAIN city_map :
              Cardinality({i \in 1..Len(Cities) : Cities[i] = Title(k)})
                  = Cardinality({j \in DOMAIN city_map : Title(j) = Title(k)})
        /\ Len(Cities) = Cardinality(DOMAIN city_map)

\* A table of two keys gave a list of two different entries.
C5_Witness ==
    /\ last_op = "get_cities"
    /\ Cardinality(DOMAIN city_map) = 2
    /\ Len(Cities) = 2
    /\ Cities[1] # Cities[2]

\* C6: from the end of startup to the start of shutdown every GET /api/metrics
\* returns the same snapshot, the one startup stored, whatever requests come
\* in between.
C6_SameSnapshot ==
    /\ Cardinality(metrics_returned) <= 1
    /\ pc = "serving" =>
          /\ metrics_data = MetricsSnapshot(test_eval)
          /\ \A body \in metrics_returned : body = metrics_data

\* A failed prediction came after a GET /api/metrics that returned the
\* snapshot of an evaluation.
C6_Witness ==
    /\ pc = "serving"
    /\ test_eval.present
    /\ metrics_returned = {metrics_data}
    /\ Predicted
    /\ response.status = 500

\* C7: no handler changes city_map, ml_models or metrics_data, whether the
\* request succeeds, is rejected or fails in the model.
C7_HandlersLeaveState ==
    [][last_op' \in Handlers => UNCHANGED process_state]_vars

\* A rejected prediction left a loaded table, model and metrics behind.
C7_Witness ==
    /\ Predicted
    /\ response.status = 422
    /\ DOMAIN city_map # {}
    /\ "model" \in DOMAIN ml_models
    /\ DOMAIN metrics_data # {}

\* ml_models and metrics_data hold everything startup puts there.
Populated ==
    /\ DOMAIN ml_models = {"model", "features", "feature_importance_dict"}
    /\ DOMAIN metrics_data = {"MAE", "RMSE", "R2", "Bias", "Within_1_km", "Grade"}

\* C8: ml_models and metrics_data change only in the steps of startup and of
\* shutdown, and a handler runs only between the two: it finds both populated
\* and leaves them so.
C8_LifespanAroundRequests ==
    [][ /\ last_op' \in Handlers => (Populated /\ Populated')
        /\ (ml_models' # ml_models \/ metrics_data' # metrics_data) =>
              last_op' \in {"load_model", "feature_importance", "compute_metrics",
                            "clear_models", "clear_metrics"} ]_vars

\* A request was answered, and then the shutdown ran to its end.
C8_Witness ==
    /\ pc = "stopped"
    /\ response.status = 200
    /\ request.path = "/api/cities"

\* C9 as stated: once the shutdown has run, the city table, ml_models and
\* metrics_data are all empty.
C9_AllThreeCleared ==
    pc = "stopped" =>
        /\ DOMAIN city_map = {}
        /\ DOMAIN ml_models = {}
        /\ DOMAIN metrics_data = {}

\* C9 as amended: once the shutdown has run, ml_models and metrics_data are
\* empty; city_map, built when the module loads, is not part of the lifespan
\* and keeps its content from the end of the module load on.
C9_ModelsAndMetricsCleared ==
    [][ /\ pc' = "stopped" => (DOMAIN ml_models' = {} /\ DOMAIN metrics_data' = {})
        /\ pc # "import" => city_map' = city_map ]_vars

\* The shutdown has run and the city table still has its rows.
C9_Witness ==
    /\ pc = "stopped"
    /\ DOMAIN city_map # {}
    /\ DOMAIN ml_models = {}
    /\ DOMAIN metrics_data = {}

\* The snapshot in metrics_data was computed from an evaluation set.
FromEvaluation == pc = "serving" /\ test_eval.present

\* C10 as stated: in a snapshot computed from an evaluation set, Grade is
\* EXCELLENT exactly when the reported Within_1_km exceeds 75.
C10_GradeAgreesWithReported ==
    FromEvaluation =>
        (metrics_data.Grade = "EXCELLENT" <=> metrics_data.Within_1_km > 7500)

\* C10 as amended: Grade is EXCELLENT exactly when the unrounded percentage
\* hits / n * 100 exceeds 75, and GOOD otherwise.  A reported Within_1_km
\* above 75 comes with EXCELLENT and one below 75 with GOOD; a reported 75.0
\* comes with either.
C10_GradeOnUnrounded ==
    FromEvaluation =>
        /\ metrics_data.Grade \in {"EXCELLENT", "GOOD"}
        /\ metrics_data.Grade = "EXCELLENT" <=> 100 * test_eval.hits > 75 * test_eval.n
        /\ metrics_data.Within_1_km > 7500 => metrics_data.Grade = "EXCELLENT"
        /\ metrics_data.Within_1_km < 7500 => metrics_data.Grade = "GOOD"

\* An evaluation whose percentage lies between 75 and 75.005 is reported as
\* 75.0 and graded EXCELLENT.
C10_Witness ==
    /\ FromEvaluation
    /\ 100 * test_eval.hits > 75 * test_eval.n
    /\ metrics_data.Within_1_km = 7500
    /\ metrics_data.Grade = "EXCELLENT"

====
